---- MODULE Spec2Model ----
(***************************************************************************)
(* Model of the solc buildpack's layer contribution (solc/solc.go).        *)
(*                                                                         *)
(* Solc.Contribute hands a rebuild callback to libpak's                    *)
(* DependencyLayerContributor.  The callback (solc.go:53-110) is modelled  *)
(* from the source, step by step.  The contributor itself (the reuse       *)
(* decision and the persisting of metadata) lives in the libpak library,   *)
(* outside src/, and is modelled from spec.md section 4.1.                 *)
(*                                                                         *)
(* Texts (command output, versions) are sequences of one-character         *)
(* strings, so that strings.TrimSpace and fmt.Sprintf are computed.        *)
(***************************************************************************)
EXTENDS Integers, Sequences, FiniteSets, TLC

VARIABLES layer, fs, PATH, sbom, call, attempts, rebuilds, ncalls, flag, processes,
          perr

vars == <<layer, fs, PATH, sbom, call, attempts, rebuilds, ncalls, flag, processes,
          perr>>

\* ------------------------------------------------------------------ bounds

\* Number of Contribute calls a behaviour makes on the layer location.
MaxCalls == 3

\* ------------------------------------------------------------- value sets

\* metadata.dependencies of buildpack.toml, and variants of it that a later
\* buildpack.toml could declare: another artifact (checksum and version),
\* and the same artifact under another uri and strip depth.
Node2010 == [id |-> "node", version |-> <<"2", "0">>, checksum |-> "3fe4",
             uri |-> "dist/v20", stripComponents |-> 1]

Node2200 == [id |-> "node", version |-> <<"2", "2">>, checksum |-> "a1b2",
             uri |-> "dist/v22", stripComponents |-> 1]

NodeMirror == [id |-> "node", version |-> <<"2", "0">>, checksum |-> "3fe4",
               uri |-> "mirror/v20", stripComponents |-> 2]

Descriptors == {Node2010, Node2200, NodeMirror}

\* layer.metadata of a layer that was never contributed.
Absent == [id |-> "", version |-> <<>>, checksum |-> "",
           uri |-> "", stripComponents |-> 0]

\* Combined output (stdout and stderr) an external command can leave in buf.
NpmOutputs == { <<"o", "k", "\n">>, <<"E", "R", "R">> }

SolcjsOutputs == { <<"2", "0", "\n">>, <<" ", "0", ".", "8", "\n">>, <<"0", ".", "8">> }

\* Values of BP_ENABLE_SOLC_PROCESS handed to BuildProcessTypes.
Flags == {"true", "false", "", "True", " true"}

LayerPath == "layers/solc"

NoTypes == [build |-> FALSE, cache |-> FALSE, launch |-> FALSE]

\* libcnb.Layer{}: the zero value the callback returns with an error.
EmptyLayer == [path |-> "", types |-> NoTypes, metadata |-> Absent]

NoError == [msg |-> "nil", output |-> <<>>]

\* ------------------------------------------------------------ pure helpers

IsSpace(c) == c \in {" ", "\n", "\t", "\r"}

RECURSIVE TrimLeft(_)
TrimLeft(s) == IF s # <<>> /\ IsSpace(Head(s)) THEN TrimLeft(Tail(s)) ELSE s

RECURSIVE TrimRight(_)
TrimRight(s) ==
    IF s # <<>> /\ IsSpace(s[Len(s)]) THEN TrimRight(SubSeq(s, 1, Len(s) - 1)) ELSE s

\* strings.TrimSpace
TrimSpace(s) == TrimRight(TrimLeft(s))

\* filepath.Join(layer.Path, "bin")
Bin(l) == <<l.path, "bin">>

\* sherpa.AppendToEnvVar("PATH", ":", bin): the current value with bin appended.
AppendToEnvVar(path, bin) == Append(path, bin)

\* fmt.Sprintf("cpe:2.3:a:solc:solc:%s:*:*:*:*:*:*:*", version)
CPE(version) == <<"cpe:2.3:a:solc:solc:">> \o version \o <<":*:*:*:*:*:*:*">>

\* fmt.Sprintf("pkg:generic/solc@%s", version)
PURL(version) == <<"pkg:generic/solc@">> \o version

\* sbom.NewSyftDependency(layer.Path, []sbom.SyftArtifact{...})
SyftDependency(l, version) ==
    [source |-> l.path, id |-> "solc", name |-> "Solc", version |-> version,
     cpe |-> CPE(version), purl |-> PURL(version)]

\* No provenance file at layer.SBOMPath(libcnb.SyftJSON).
NoSBOM == [source |-> "", id |-> "", name |-> "", version |-> <<>>,
           cpe |-> <<>>, purl |-> <<>>]

\* The artifact handle the dependency cache supplies for a descriptor.
Artifact(d) == [name |-> d.uri, sha256 |-> d.checksum]

NoArtifact == [name |-> "", sha256 |-> ""]

\* An empty layer directory: nothing expanded, solc not installed.
EmptyDir == [extracted |-> NoArtifact, strip |-> 0, solc |-> FALSE]

\* ------------------------------------------- the rebuild callback, by step
\* st is the callback's progress: the layer directory, the process PATH, the
\* provenance file, the steps attempted so far, the buffers captured and the
\* (layer, error) it returns.  in holds the outcomes of the external calls.

AllOutcomes == [extractOk : BOOLEAN, setenvOk : BOOLEAN,
                npmOk : BOOLEAN, npmOut : NpmOutputs,
                solcjsOk : BOOLEAN, solcjsOut : SolcjsOutputs,
                sbomOk : BOOLEAN]

\* The outcome of a call that is never made does not matter: one value
\* stands for it (success, and the first output of the set).
Unused(o) ==
    /\ (~o.extractOk => o.setenvOk)
    /\ (~(o.extractOk /\ o.setenvOk) =>
            o.npmOk /\ o.npmOut = CHOOSE x \in NpmOutputs : TRUE)
    /\ (~(o.extractOk /\ o.setenvOk /\ o.npmOk) =>
            o.solcjsOk /\ o.solcjsOut = CHOOSE x \in SolcjsOutputs : TRUE)
    /\ (~(o.extractOk /\ o.setenvOk /\ o.npmOk /\ o.solcjsOk) => o.sbomOk)

Outcomes == {o \in AllOutcomes : Unused(o)}

Start(dir, path, prov) ==
    [fs |-> dir, PATH |-> path, sbom |-> prov, steps |-> <<>>,
     npmBuf |-> <<>>, solcjsBuf |-> <<>>, ret |-> EmptyLayer, err |-> NoError]

Fail(st, msg, output) ==
    [st EXCEPT !.ret = EmptyLayer, !.err = [msg |-> msg, output |-> output]]

\* The strip depth Contribute passes to crush.Extract.
StripComponents == 1

\* Mutant: the error of crush.Extract is not checked.
ExtractUnchecked(st, l, artifact, in) ==
    [st EXCEPT !.steps = Append(@, "extract"),
               !.fs.extracted = IF in.extractOk THEN artifact ELSE @,
               !.fs.strip = IF in.extractOk THEN StripComponents ELSE @]

\* crush.Extract(artifact, layer.Path, 1)
Extract(st, l, artifact, in) ==
    LET s == [st EXCEPT !.steps = Append(@, "extract")] IN
    IF in.extractOk
    THEN [s EXCEPT !.fs.extracted = artifact, !.fs.strip = StripComponents]
    ELSE Fail(s, "unable to expand", <<>>)

\* Mutant: the error of os.Setenv is not checked.
SetenvUnchecked(st, l, in) ==
    [st EXCEPT !.steps = Append(@, "setenv"),
               !.PATH = IF in.setenvOk THEN AppendToEnvVar(@, Bin(l)) ELSE @]

\* os.Setenv("PATH", sherpa.AppendToEnvVar("PATH", ":", bin))
Setenv(st, l, in) ==
    LET s == [st EXCEPT !.steps = Append(@, "setenv")] IN
    IF in.setenvOk
    THEN [s EXCEPT !.PATH = AppendToEnvVar(@, Bin(l))]
    ELSE Fail(s, "unable to set $PATH", <<>>)

\* Mutant: the error of npm install is not checked.
ExecuteNpmUnchecked(st, l, in) ==
    [st EXCEPT !.steps = Append(@, "npm"), !.npmBuf = in.npmOut,
               !.fs.solc = in.npmOk]

\* Mutant: the error of npm install is returned without the captured output.
ExecuteNpmDropsOutput(st, l, in) ==
    LET s == [st EXCEPT !.steps = Append(@, "npm"), !.npmBuf = in.npmOut] IN
    IF in.npmOk
    THEN [s EXCEPT !.fs.solc = TRUE]
    ELSE Fail(s, "error executing npm", <<>>)

\* Executor.Execute(npm install solc -g), stdout and stderr into buf
ExecuteNpm(st, l, in) ==
    LET s == [st EXCEPT !.steps = Append(@, "npm"), !.npmBuf = in.npmOut] IN
    IF in.npmOk
    THEN [s EXCEPT !.fs.solc = TRUE]
    ELSE Fail(s, "error executing npm", s.npmBuf)

\* Mutant: buf is not replaced, the version query appends to npm's output.
VersionBufferReused(npmBuf, out) == npmBuf \o out

\* buf = &bytes.Buffer{}: the version query writes into a fresh buffer.
VersionBuffer(npmBuf, out) == out

\* Mutant: the error of solcjs --version is not checked.
ExecuteSolcjsUnchecked(st, l, in) ==
    [st EXCEPT !.steps = Append(@, "solcjs"),
               !.solcjsBuf = VersionBuffer(st.npmBuf, in.solcjsOut)]

\* Executor.Execute(solcjs --version), stdout and stderr into buf
ExecuteSolcjs(st, l, in) ==
    LET s == [st EXCEPT !.steps = Append(@, "solcjs"),
                        !.solcjsBuf = VersionBuffer(st.npmBuf, in.solcjsOut)] IN
    IF in.solcjsOk
    THEN s
    ELSE Fail(s, "error executing 'solcjs --version'", s.solcjsBuf)

\* version := strings.TrimSpace(buf.String())
Version(st) == TrimSpace(st.solcjsBuf)

\* Mutant: the error of dep.WriteTo is not checked.
WriteSBOMUnchecked(st, l, in) ==
    [st EXCEPT !.steps = Append(@, "sbom"),
               !.sbom = IF in.sbomOk THEN SyftDependency(l, Version(st)) ELSE @]

\* Mutant: a failed dep.WriteTo returns the layer next to the error.
WriteSBOMReturnsLayer(st, l, in) ==
    LET s == [st EXCEPT !.steps = Append(@, "sbom")] IN
    IF in.sbomOk
    THEN [s EXCEPT !.sbom = SyftDependency(l, Version(st))]
    ELSE [Fail(s, "unable to write SBOM", <<>>) EXCEPT !.ret = l]

\* dep.WriteTo(sbomPath)
WriteSBOM(st, l, in) ==
    LET s == [st EXCEPT !.steps = Append(@, "sbom")] IN
    IF in.sbomOk
    THEN [s EXCEPT !.sbom = SyftDependency(l, Version(st))]
    ELSE Fail(s, "unable to write SBOM", <<>>)

Failed(st) == st.err # NoError

\* Mutant: the callback does not run npm install.
RebuildWithoutInstall(st, l, artifact, in) ==
    LET s1 == Extract(st, l, artifact, in) IN
    IF Failed(s1) THEN s1 ELSE
    LET s2 == Setenv(s1, l, in) IN
    IF Failed(s2) THEN s2 ELSE
    LET s4 == ExecuteSolcjs(s2, l, in) IN
    IF Failed(s4) THEN s4 ELSE
    LET s5 == WriteSBOM(s4, l, in) IN
    IF Failed(s5) THEN s5 ELSE
    [s5 EXCEPT !.ret = l]

\* Mutant: a failed npm install is tried a second time.
RebuildRetriesInstall(st, l, artifact, in) ==
    LET s1 == Extract(st, l, artifact, in) IN
    IF Failed(s1) THEN s1 ELSE
    LET s2 == Setenv(s1, l, in) IN
    IF Failed(s2) THEN s2 ELSE
    LET s3a == ExecuteNpm(s2, l, in)
        s3 == IF Failed(s3a)
              THEN ExecuteNpm([s3a EXCEPT !.err = NoError], l, in)
              ELSE s3a IN
    IF Failed(s3) THEN s3 ELSE
    LET s4 == ExecuteSolcjs(s3, l, in) IN
    IF Failed(s4) THEN s4 ELSE
    LET s5 == WriteSBOM(s4, l, in) IN
    IF Failed(s5) THEN s5 ELSE
    [s5 EXCEPT !.ret = l]

\* Mutant: npm install runs before bin is put on the PATH.
RebuildInstallBeforePath(st, l, artifact, in) ==
    LET s1 == Extract(st, l, artifact, in) IN
    IF Failed(s1) THEN s1 ELSE
    LET s2 == ExecuteNpm(s1, l, in) IN
    IF Failed(s2) THEN s2 ELSE
    LET s3 == Setenv(s2, l, in) IN
    IF Failed(s3) THEN s3 ELSE
    LET s4 == ExecuteSolcjs(s3, l, in) IN
    IF Failed(s4) THEN s4 ELSE
    LET s5 == WriteSBOM(s4, l, in) IN
    IF Failed(s5) THEN s5 ELSE
    [s5 EXCEPT !.ret = l]

\* The function literal Solc.Contribute passes to the contributor.
Rebuild(st, l, artifact, in) ==
    LET s1 == Extract(st, l, artifact, in) IN
    IF Failed(s1) THEN s1 ELSE
    LET s2 == Setenv(s1, l, in) IN
    IF Failed(s2) THEN s2 ELSE
    LET s3 == ExecuteNpm(s2, l, in) IN
    IF Failed(s3) THEN s3 ELSE
    LET s4 == ExecuteSolcjs(s3, l, in) IN
    IF Failed(s4) THEN s4 ELSE
    LET s5 == WriteSBOM(s4, l, in) IN
    IF Failed(s5) THEN s5 ELSE
    [s5 EXCEPT !.ret = l]

\* ------------------------------------------------ the layer contributor
\* libpak's DependencyLayerContributor, as spec.md section 4.1 describes it.

\* Step 1: the cache key of a descriptor is its checksum.
CacheKey(d) == d.checksum

\* Step 2: metadata is present and its cache key equals the new key.
CacheHit(l, d) == l.metadata # Absent /\ CacheKey(l.metadata) = CacheKey(d)

\* Steps 2 to 4: reuse, or rebuild and then persist the descriptor.
LayerContribute(st, l, d, in) ==
    IF CacheHit(l, d)
    THEN [st EXCEPT !.ret = l]
    ELSE LET r == Rebuild(st, l, Artifact(d), in) IN
         IF Failed(r)
         THEN r
         ELSE [r EXCEPT !.ret = [r.ret EXCEPT !.metadata = d],
                        !.steps = Append(@, "persist")]

\* Mutant: Contribute runs the callback itself, whatever the layer holds.
SolcContributeUncached(st, l, d, in) ==
    LET r == Rebuild(st, l, Artifact(d), in) IN
    IF Failed(r)
    THEN r
    ELSE [r EXCEPT !.ret = [r.ret EXCEPT !.metadata = d],
                   !.steps = Append(@, "persist")]

\* Mutant: Contribute hands the contributor a fresh layer, not the stored one.
SolcContributeFresh(st, l, d, in) ==
    LayerContribute(st, [l EXCEPT !.metadata = Absent], d, in)

\* Solc.Contribute: delegate to the contributor with the rebuild callback.
SolcContribute(st, l, d, in) == LayerContribute(st, l, d, in)

\* Mutant: the process is offered only once the layer holds metadata.
BuildProcessTypesStateful(enableProcess) ==
    IF enableProcess = "true" /\ layer.metadata # Absent
    THEN <<[type |-> "web", command |-> "npm start", default |-> TRUE]>>
    ELSE <<>>

\* Mutant: the flag is read as strconv.ParseBool reads it.
BuildProcessTypesParseBool(enableProcess) ==
    IF enableProcess \in {"1", "t", "T", "TRUE", "true", "True"}
    THEN <<[type |-> "web", command |-> "npm start", default |-> TRUE]>>
    ELSE <<>>

\* Solc.BuildProcessTypes
BuildProcessTypes(enableProcess) ==
    IF enableProcess = "true"
    THEN <<[type |-> "web", command |-> "npm start", default |-> TRUE]>>
    ELSE <<>>

\* The error Solc.BuildProcessTypes returns next to the processes: nil.
BuildProcessTypesError(enableProcess) == "nil"

\* ------------------------------------------------------------ state machine

NoCall == [d |-> Absent, in |-> CHOOSE o \in Outcomes : TRUE,
           input |-> EmptyLayer, steps |-> <<>>,
           npmBuf |-> <<>>, solcjsBuf |-> <<>>,
           ret |-> EmptyLayer, err |-> NoError]

Init ==
    /\ layer = [path |-> LayerPath, types |-> NoTypes, metadata |-> Absent]
    /\ fs = EmptyDir
    /\ PATH = <<"/usr/bin">>
    /\ sbom = NoSBOM
    /\ call = NoCall
    /\ attempts = [d \in Descriptors |-> 0]
    /\ rebuilds = [d \in Descriptors |-> 0]
    /\ ncalls = 0
    /\ flag = "unset"
    /\ processes = <<>>
    /\ perr = "unset"

\* One build's Contribute call for descriptor d on the layer location.  The
\* call record keeps what the call was given and what it returned (the
\* outcomes only when the callback ran and could consume them); attempts
\* and rebuilds count, per descriptor, the calls that ran the callback and
\* those among them that returned no error.  The
\* layer returned without error is what the lifecycle persists; after an
\* error the layer's metadata file is left as it was.
Contribute(d, in) ==
    /\ ncalls < MaxCalls
    /\ \E r \in {SolcContribute(Start(fs, PATH, sbom), layer, d, in)} :
       /\ fs' = r.fs
       /\ PATH' = r.PATH
       /\ sbom' = r.sbom
       /\ layer' = IF Failed(r) THEN layer ELSE r.ret
       /\ call' = [d |-> d, in |-> IF r.steps = <<>> THEN NoCall.in ELSE in, input |-> layer, steps |-> r.steps,
                   npmBuf |-> r.npmBuf, solcjsBuf |-> r.solcjsBuf,
                   ret |-> r.ret, err |-> r.err]
       /\ attempts' = IF r.steps # <<>>
                      THEN [attempts EXCEPT ![d] = @ + 1]
                      ELSE attempts
       /\ rebuilds' = IF r.steps # <<>> /\ ~Failed(r)
                      THEN [rebuilds EXCEPT ![d] = @ + 1]
                      ELSE rebuilds
    /\ ncalls' = ncalls + 1
    /\ UNCHANGED <<flag, processes, perr>>

\* The build resolves the launch processes from BP_ENABLE_SOLC_PROCESS.
Resolve(f) ==
    /\ flag' = f
    /\ processes' = BuildProcessTypes(f)
    /\ perr' = BuildProcessTypesError(f)
    /\ UNCHANGED <<layer, fs, PATH, sbom, call, attempts, rebuilds, ncalls>>

Next ==
    \/ \E d \in Descriptors, in \in Outcomes : Contribute(d, in)
    \/ \E f \in Flags : Resolve(f)

Spec == Init /\ [][Next]_vars

\* ------------------------------------------------------- reading a call

Count(x, seq) == Cardinality({i \in 1..Len(seq) : seq[i] = x})

Ran(step, c) == Count(step, c.steps) > 0

\* The steps of the callback, in the order of the source.
Pipeline == <<"extract", "setenv", "npm", "solcjs", "sbom">>

Made(c) == c.d # Absent

\* The stored metadata equals the descriptor in (id, version, checksum).
Matches(m, d) == m.id = d.id /\ m.version = d.version /\ m.checksum = d.checksum

\* The stored metadata is absent or its checksum differs from the descriptor's.
Stale(m, d) == m = Absent \/ m.checksum # d.checksum

Succeeded(c) == Made(c) /\ c.err = NoError

\* The call ran the callback and every step of it succeeded.
Rebuilt(c) == Succeeded(c) /\ c.steps # <<>>

\* A Contribute step of the state machine.
ContributeStep == ncalls' = ncalls + 1

\* ------------------------------------------------------------------ claims

\* C1: a Contribute call on a layer whose stored metadata matches the
\* requested descriptor runs no step of the rebuild (no extraction, no PATH
\* update, no setup action, no provenance write), leaves the directory, the
\* PATH, the provenance file and the stored metadata as they were, and
\* returns the input layer without error.
C1_CacheHitIsNoOp ==
    [][(ContributeStep /\ Matches(layer.metadata, call'.d))
          => /\ call'.steps = <<>>
             /\ fs' = fs /\ PATH' = PATH /\ sbom' = sbom
             /\ layer' = layer
             /\ call'.ret = layer /\ call'.err = NoError]_vars

C1_Witness ==
    /\ Made(call) /\ Matches(call.input.metadata, call.d)
    /\ call.steps = <<>> /\ call.ret = call.input /\ layer = call.input

\* C2: a Contribute call on a layer whose stored metadata is absent or has
\* another checksum invokes the rebuild exactly once: the steps attempted
\* are a non-empty prefix of extract, setenv, npm, solcjs, sbom, each step
\* at most once, and all of them when the call returns no error.
C2_CacheMissRebuildsOnce ==
    (Made(call) /\ Stale(call.input.metadata, call.d))
        => /\ Count("extract", call.steps) = 1
           /\ \A x \in {"extract", "setenv", "npm", "solcjs", "sbom", "persist"} :
                 Count(x, call.steps) <= 1
           /\ \E n \in 1..Len(Pipeline) :
                 \/ call.steps = SubSeq(Pipeline, 1, n) /\ call.err # NoError
                 \/ call.steps = Pipeline \o <<"persist">> /\ call.err = NoError

C2_Witness ==
    /\ Made(call) /\ call.input.metadata # Absent
    /\ call.input.metadata.checksum # call.d.checksum
    /\ call.steps = Pipeline \o <<"persist">>

\* C3: when npm install or the solcjs version query fails, the call returns
\* an error and the layer's persisted metadata is what it was before the
\* call.
C3_SetupFailureKeepsMetadata ==
    ((Ran("npm", call) /\ ~call.in.npmOk) \/ (Ran("solcjs", call) /\ ~call.in.solcjsOk))
        => call.err # NoError /\ layer = call.input

C3_Witness ==
    /\ Ran("solcjs", call) /\ ~call.in.solcjsOk
    /\ call.input.metadata # Absent /\ call.input.metadata # call.d
    /\ layer = call.input

AllOk(in) == in.extractOk /\ in.setenvOk /\ in.npmOk /\ in.solcjsOk /\ in.sbomOk

\* C4: the descriptor is persisted as the last step of a call, after
\* extraction, PATH update, both setup actions and the provenance write have
\* succeeded, and the stored metadata changes in no other call; after a
\* successful rebuild the stored metadata is the full descriptor; and a
\* Contribute with the same descriptor right after it runs no rebuild.
C4_MetadataWrittenLast ==
    /\ [](Ran("persist", call)
            => /\ call.steps = Pipeline \o <<"persist">>
               /\ AllOk(call.in) /\ call.err = NoError)
    /\ []((Made(call) /\ layer # call.input) => Ran("persist", call))
    /\ [](Rebuilt(call) => layer.metadata = call.d)
    /\ [][(Rebuilt(call) /\ ContributeStep /\ call'.d = call.d)
            => call'.steps = <<>> /\ call'.err = NoError]_vars

\* Two calls with one descriptor: the first rebuilt, the second reused.
C4_Witness ==
    /\ Made(call) /\ call.steps = <<>> /\ call.err = NoError
    /\ layer.metadata = call.d /\ rebuilds[call.d] = 1 /\ ncalls = 2
    /\ sbom # NoSBOM /\ fs.solc

AllSpace(s) == \A i \in 1..Len(s) : IsSpace(s[i])

\* v is what out reports: out without the white space around it.
Reports(out, v) ==
    /\ v = <<>> \/ (~IsSpace(v[1]) /\ ~IsSpace(v[Len(v)]))
    /\ \E i \in 0..Len(out) :
          /\ i + Len(v) <= Len(out)
          /\ AllSpace(SubSeq(out, 1, i))
          /\ SubSeq(out, i + 1, i + Len(v)) = v
          /\ AllSpace(SubSeq(out, i + Len(v) + 1, Len(out)))

\* C5: after a successful rebuild the provenance record's version is what
\* solcjs --version printed in that call (without surrounding white space),
\* its CPE and package-URL embed that same value, and neither the
\* descriptor's version nor the output of npm install decides it.
C5_ProvenanceVersionIsReported ==
    Rebuilt(call)
        => /\ Reports(call.in.solcjsOut, sbom.version)
           /\ sbom.cpe = <<"cpe:2.3:a:solc:solc:">> \o sbom.version \o <<":*:*:*:*:*:*:*">>
           /\ sbom.purl = <<"pkg:generic/solc@">> \o sbom.version

\* The tool reports another version than the descriptor names.
C5_Witness ==
    /\ Rebuilt(call) /\ sbom.version = <<"0", ".", "8">>
    /\ call.d.version = <<"2", "0">> /\ call.in.solcjsOut # sbom.version

\* C6: BuildProcessTypes returns exactly one process, marked default, for
\* the flag "true" and no process for every other value; so at most one
\* process of the result is default.
C6_ProcessFlagMapping ==
    flag # "unset"
        => /\ flag = "true"
                => Len(processes) = 1 /\ processes[1].default
                   /\ processes[1].type = "web" /\ processes[1].command = "npm start"
           /\ flag # "true" => processes = <<>>
           /\ Cardinality({i \in 1..Len(processes) : processes[i].default}) <= 1

C6_Witness == flag = "True" /\ processes = <<>>

\* C7 as claimed: over any sequence of Contribute calls on the layer, the
\* rebuild is completed at most once for each descriptor.
C7_AtMostOneRebuildPerDescriptor == \A d \in Descriptors : rebuilds[d] <= 1

\* C7, amended: a call runs the rebuild exactly when the stored metadata is
\* absent or has another checksum than the requested descriptor, whatever
\* the directory, the PATH and the earlier calls were; so a rebuild for a
\* descriptor is never run while the stored metadata matches it, and is run
\* again once another descriptor was stored or its own rebuild failed.
C7_RebuildOnlyWhenStale ==
    /\ [](Made(call)
            => (call.steps # <<>> <=> Stale(call.input.metadata, call.d)))
    /\ [][(ContributeStep /\ attempts'[call'.d] > attempts[call'.d])
            => ~Matches(layer.metadata, call'.d)]_vars
    /\ [][(ContributeStep /\ Matches(layer.metadata, call'.d))
            => attempts' = attempts /\ rebuilds' = rebuilds]_vars

\* Node2010 rebuilt, replaced by Node2200, and rebuilt a second time.
C7_Witness ==
    /\ rebuilds[Node2010] = 2 /\ rebuilds[Node2200] = 1
    /\ call.d = Node2010 /\ call.input.metadata = Node2200

\* The provenance record this call wrote is the one on disk.
ProvenanceWritten(c) ==
    /\ Ran("sbom", c) /\ c.in.sbomOk
    /\ sbom # NoSBOM /\ sbom.source = c.input.path
    /\ Reports(c.in.solcjsOut, sbom.version)

\* C8: when the provenance write fails the call returns an error and the
\* stored metadata stays what it was; and a call that persisted metadata
\* has written its provenance record.
C8_NoMetadataWithoutProvenance ==
    /\ (Ran("sbom", call) /\ ~call.in.sbomOk)
          => call.err # NoError /\ layer = call.input /\ ~Ran("persist", call)
    /\ (Made(call) /\ (Ran("persist", call) \/ layer # call.input))
          => ProvenanceWritten(call)

C8_Witness ==
    /\ Ran("sbom", call) /\ ~call.in.sbomOk /\ call.err.msg = "unable to write SBOM"
    /\ call.input.metadata # Absent /\ layer = call.input

\* The directory, the provenance file and the metadata all reflect call c.
FullyRebuilt(c) ==
    /\ fs.extracted = Artifact(c.d) /\ fs.solc
    /\ ProvenanceWritten(c)
    /\ layer.metadata = c.d

\* C9 as claimed: a call either rebuilds the layer fully or changes none of
\* the directory, the provenance file and the metadata.
C9_AllOrNothing ==
    [][ContributeStep
         => \/ FullyRebuilt(call)'
            \/ fs' = fs /\ sbom' = sbom /\ layer' = layer]_vars

\* C9, amended: a call either rebuilds the layer fully (directory,
\* provenance and metadata reflect the descriptor) or leaves the persisted
\* metadata unchanged; what a failed call wrote before its failure stays in
\* the directory, next to the old metadata.
C9_FullRebuildOrOldMetadata ==
    Made(call)
        => /\ (Rebuilt(call) \/ layer # call.input) => FullyRebuilt(call)
           /\ ~Rebuilt(call) => layer = call.input
           /\ (call.steps # <<>> /\ ~AllOk(call.in)) => ~Rebuilt(call)

\* A failure after extraction: new content, old metadata.
C9_Witness ==
    /\ Made(call) /\ call.err.msg = "unable to set $PATH"
    /\ fs.extracted = Artifact(call.d)
    /\ layer = call.input /\ layer.metadata # Absent
    /\ layer.metadata.checksum # call.d.checksum

\* C10: a call for a descriptor in which any step failed returns an error
\* and leaves no metadata that matches the descriptor; the next call for
\* that descriptor runs the rebuild again, from extraction on.
C10_FailureForcesRetry ==
    /\ []((Made(call) /\ call.steps # <<>> /\ ~AllOk(call.in))
            => /\ call.err # NoError /\ layer = call.input
               /\ Stale(layer.metadata, call.d))
    /\ [][(Made(call) /\ call.err # NoError /\ ContributeStep /\ call'.d = call.d)
            => /\ call'.steps # <<>> /\ Head(call'.steps) = "extract"
               /\ attempts'[call.d] = attempts[call.d] + 1]_vars

\* The first call for the descriptor failed, the second one rebuilt it.
C10_Witness ==
    /\ ncalls = 2 /\ Rebuilt(call)
    /\ attempts[call.d] = 2 /\ rebuilds[call.d] = 1


\* C12 as claimed: a successful extraction expands the descriptor's artifact
\* into the layer directory with the descriptor's stripComponents leading
\* path segments discarded, and a failed extraction ends the call with an
\* error.
C12_ExtractHonoursStripDepth ==
    (Made(call) /\ Ran("extract", call))
        => IF call.in.extractOk
           THEN fs.extracted = Artifact(call.d) /\ fs.strip = call.d.stripComponents
           ELSE call.err # NoError /\ call.steps = <<"extract">>

\* Whether the external call of a step succeeds under outcomes in.
StepOk(step, in) ==
    CASE step = "extract" -> in.extractOk
      [] step = "setenv"  -> in.setenvOk
      [] step = "npm"     -> in.npmOk
      [] step = "solcjs"  -> in.solcjsOk
      [] step = "sbom"    -> in.sbomOk

\* The first step of the callback whose external call fails under in.
FirstFailing(in) ==
    Pipeline[CHOOSE i \in 1..Len(Pipeline) :
               /\ ~StepOk(Pipeline[i], in)
               /\ \A j \in 1..(i - 1) : StepOk(Pipeline[j], in)]

\* The error kind (spec.md section 7) a message of the callback stands for.
ErrorKind(msg) ==
    CASE msg = "unable to expand" -> "ExtractionFailed"
      [] msg = "unable to set $PATH" -> "EnvironmentUpdateFailed"
      [] msg = "error executing npm" -> "SetupActionFailed"
      [] msg = "error executing 'solcjs --version'" -> "SetupActionFailed"
      [] msg = "unable to write SBOM" -> "ProvenanceWriteFailed"
      [] OTHER -> "none"

\* The error kind a failure of a step has to be reported with.
KindOfStep(step) ==
    CASE step = "extract" -> "ExtractionFailed"
      [] step = "setenv"  -> "EnvironmentUpdateFailed"
      [] step \in {"npm", "solcjs"} -> "SetupActionFailed"
      [] step = "sbom"    -> "ProvenanceWriteFailed"

\* A call that ran the callback and in which the external call of a step failed.
StepFailed(c) == Made(c) /\ c.steps # <<>> /\ ~AllOk(c.in)

\* C13: a call in which a step fails returns an error whose message is that
\* of the failing step, so extraction, PATH update, setup action and
\* provenance write failures are told apart (and the two setup actions from
\* each other); the error of a failed setup action carries the combined
\* output the action wrote, and the buffer holds that output after a
\* successful action as well.
C13_FailuresAreDistinguishable ==
    /\ StepFailed(call)
          => /\ call.err # NoError
             /\ ErrorKind(call.err.msg) = KindOfStep(FirstFailing(call.in))
             /\ FirstFailing(call.in) = "npm"
                   => call.err.msg = "error executing npm"
                      /\ call.err.output = call.in.npmOut
             /\ FirstFailing(call.in) = "solcjs"
                   => call.err.msg = "error executing 'solcjs --version'"
                      /\ call.err.output = call.in.solcjsOut
    /\ Ran("npm", call) => call.npmBuf = call.in.npmOut
    /\ Ran("solcjs", call) => call.solcjsBuf = call.in.solcjsOut

C13_Witness ==
    /\ StepFailed(call) /\ FirstFailing(call.in) = "npm"
    /\ call.err.output = <<"E", "R", "R">>
    /\ ErrorKind(call.err.msg) = "SetupActionFailed"

\* C14: the steps a call attempts are extract, setenv, npm, solcjs, sbom in
\* this order, up to and including the first step that fails: every step
\* before the last attempted one succeeded, no step is attempted twice, and
\* the call stops short of sbom only behind a failed step, with an error.
C14_LinearPipeline ==
    (Made(call) /\ call.steps # <<>>)
        => \E n \in 1..Len(Pipeline) :
             /\ Len(call.steps) >= n
             /\ SubSeq(call.steps, 1, n) = SubSeq(Pipeline, 1, n)
             /\ \A i \in 1..(n - 1) : StepOk(Pipeline[i], call.in)
             /\ IF StepOk(Pipeline[n], call.in)
                THEN /\ n = Len(Pipeline) /\ call.err = NoError
                     /\ call.steps = Pipeline \o <<"persist">>
                ELSE /\ Len(call.steps) = n /\ call.err # NoError
                     /\ FirstFailing(call.in) = Pipeline[n]

\* npm install failed: nothing runs after it, and it is not run again.
C14_Witness ==
    /\ Made(call) /\ call.steps = <<"extract", "setenv", "npm">>
    /\ ~call.in.npmOk /\ call.err # NoError

\* Every setup action in steps comes after a setenv.
PathSetFirst(steps) ==
    \A j \in 1..Len(steps) :
        steps[j] \in {"npm", "solcjs"} => \E i \in 1..(j - 1) : steps[i] = "setenv"

\* C15: a call that invokes a setup action has before that, in the same
\* call, appended the layer's bin directory to the PATH with success; a call
\* that does not reach the PATH update, a cache hit among them, leaves the
\* PATH as it was.
C15_PathBeforeTools ==
    [][ContributeStep
         => /\ (Ran("npm", call') \/ Ran("solcjs", call'))
                 => /\ PathSetFirst(call'.steps) /\ call'.in.setenvOk
                    /\ PATH' = Append(PATH, <<layer.path, "bin">>)
            /\ (call'.steps = <<>> \/ ~Ran("setenv", call')) => PATH' = PATH]_vars

\* A call that ran both setup actions, behind its own PATH update.
C15_Witness ==
    /\ Ran("npm", call) /\ Ran("solcjs", call)
    /\ Len(PATH) = 3 /\ PATH[3] = <<call.input.path, "bin">>

\* C16: when a step fails the call returns the zero layer and an error;
\* when every step succeeds it returns the input layer's path and types
\* and no error.
C16_ResultShape ==
    /\ StepFailed(call) => call.ret = EmptyLayer /\ call.err # NoError
    /\ (Made(call) /\ call.steps # <<>> /\ AllOk(call.in))
          => /\ call.err = NoError
             /\ call.ret.path = call.input.path /\ call.ret.path = LayerPath
             /\ call.ret.types = call.input.types

C16_Witness ==
    /\ StepFailed(call) /\ FirstFailing(call.in) = "sbom"
    /\ call.ret = EmptyLayer /\ call.ret # call.input

\* A step that is not a Contribute call: BuildProcessTypes.
ResolveStep == ncalls' = ncalls

\* C17: BuildProcessTypes returns a nil error for every flag value, leaves
\* the layer, its directory and provenance file, the PATH and the record of
\* Contribute calls as they were, and calling it again with the same flag,
\* whatever Contribute calls were made since, returns the same processes.
C17_ResolveIsPure ==
    /\ [](flag # "unset"
            => /\ perr = "nil"
               /\ processes = BuildProcessTypes(flag)
               /\ BuildProcessTypesError(flag) = perr)
    /\ [][ResolveStep
            => UNCHANGED <<layer, fs, PATH, sbom, call, attempts, rebuilds>>]_vars

\* The flag was resolved and the layer was rebuilt twice around it.
C17_Witness ==
    /\ flag = "true" /\ Len(processes) = 1 /\ perr = "nil"
    /\ layer.metadata # Absent /\ ncalls = MaxCalls
    /\ \E d \in Descriptors : rebuilds[d] >= 1

====
